---- MODULE Spec2Model ----
(***************************************************************************)
(* Model of src/convert.js: a script that deep-copies an emoji dataset,    *)
(* writes a backup, transcodes every embedded image to WebP in batches of  *)
(* 50 concurrent operations, and writes the converted dataset.             *)
(*                                                                         *)
(* JavaScript objects live in `heap` and arrays hold references, so that   *)
(* in-place mutation of a record and aliasing between the source           *)
(* collection, the working copy and a batch are visible.  Strings are      *)
(* sequences of tokens; a base64 payload is one token carrying the bytes   *)
(* it encodes.  File-system calls are assumed to succeed.                  *)
(***************************************************************************)
EXTENDS Integers, Sequences, FiniteSets, TLC

(* ------------------------------ bounds ------------------------------- *)

\* datasets have up to MaxFullBatches full batches followed by a tail
MaxFullBatches == 2
\* at most this many records of a dataset carry a "data:image" value
MaxImages == 2
\* lengths of the last, partial batch
Tails == {0, 1, 20}
\* byte lengths the transcoder may produce (smaller or larger than the input)
AfterSizes == {1, 5}

(* ------------------------- program constants ------------------------- *)

batchSize == 50
outputJsonPath == "./output/applemojis.optimized.json"
backupDir == "./backup"
backupPath == "./backup/applemojis.backup.js"
outputDir == "./output"
outputPath == "./output/applemojis.optimized.js"

(* ------------------------------ strings ------------------------------ *)

Lit(s) == [lit |-> s]
B64(bytes) == [b64 |-> bytes]

\* the literal "data:image" of the prefix check
imagePrefix == <<Lit("data:image")>>
\* the literal "data:image/webp;base64," of the template string
webpTag == <<Lit("data:image"), Lit("/webp;base64"), Lit(",")>>
pngTag == <<Lit("data:image"), Lit("/png;base64"), Lit(",")>>

Min(a, b) == IF a < b THEN a ELSE b

\* String.prototype.startsWith
StartsWith(s, pre) ==
    /\ Len(s) >= Len(pre)
    /\ SubSeq(s, 1, Len(pre)) = pre

RECURSIVE SplitAcc(_, _, _, _, _)
SplitAcc(s, sep, k, cur, acc) ==
    IF k > Len(s) THEN Append(acc, cur)
    ELSE IF s[k] = sep THEN SplitAcc(s, sep, k + 1, << >>, Append(acc, cur))
    ELSE SplitAcc(s, sep, k + 1, Append(cur, s[k]), acc)

\* String.prototype.split: the pieces between the separators
Split(s, sep) == SplitAcc(s, sep, 1, << >>, << >>)

\* Buffer.from(text, "base64"): the bytes a base64 text encodes
emptyBuffer == [id |-> 0, fmt |-> "none", len |-> 0, valid |-> FALSE]
BufferFrom(text) ==
    IF Len(text) = 1 /\ "b64" \in DOMAIN text[1] THEN text[1].b64 ELSE emptyBuffer

\* buffer.toString("base64")
ToBase64(buf) == <<B64(buf)>>

\* JSON.stringify / JSON.parse
JSONstringify(v) == [json |-> v]
JSONparse(t) == t.json

\* `export const applemojis = ${...};`
ExportModule(jsonText) == <<Lit("export const applemojis = "), jsonText, Lit(";")>>

\* prettyBytes, for the byte counts of the model (below 1000: "<n> B")
PrettyBytes(n) == [num |-> n, unit |-> "B"]

\* Array.prototype.slice(start, end) on a 0-based array held as a sequence
Slice(arr, start, end) == SubSeq(arr, start + 1, Min(end, Len(arr)))

(* ------------------------------ datasets ----------------------------- *)

Lengths == {b * batchSize + t : b \in 0..MaxFullBatches, t \in Tails}

\* the first and the last position of every batch of a dataset of n records
Candidates(n) ==
    {p \in 1..n : (p - 1) % batchSize = 0 \/ p % batchSize = 0 \/ p = n}

ImageKinds == {"png", "corrupt", "nocomma"}

PngBytes(p, ok) == [id |-> p, fmt |-> "png", len |-> 2 + (p % 2), valid |-> ok]

\* a record of the source module; `name` stands for its other fields
Record(p, kind) ==
    CASE kind = "png"     -> [name |-> p, emoji |-> pngTag \o ToBase64(PngBytes(p, TRUE))]
      [] kind = "corrupt" -> [name |-> p, emoji |-> pngTag \o ToBase64(PngBytes(p, FALSE))]
      [] kind = "nocomma" -> [name |-> p, emoji |-> <<Lit("data:image"), Lit("/png;base64")>>]
      [] kind = "text"    -> [name |-> p, emoji |-> <<Lit("not-an-image")>>]
      [] kind = "empty"   -> [name |-> p, emoji |-> << >>]
      [] OTHER            -> [name |-> p]

PlainKind(p) == CASE p % 3 = 0 -> "text" [] p % 3 = 1 -> "absent" [] OTHER -> "empty"

(* ------------------------------- state ------------------------------- *)

VARIABLES
    pc,           \* position of the main script / run()
    heap,         \* object reference -> record
    applemojis,   \* the imported source collection (array of references)
    data,         \* the working copy (array of references)
    dirs,         \* directories that exist
    fs,           \* path -> file content
    barLog,       \* calls received by the progress bar
    console,      \* lines printed
    totalBefore,
    totalAfter,
    i,            \* loop variable of run()
    processed,
    batch,        \* the slice being converted
    promises,     \* the promises of batch.map(convertEmoji)
    orig,         \* history: the records of the source collection at start
    calls,        \* history: positions convertEmoji was called on, in order
    sharpOut,     \* history: id of the bytes given to the transcoder -> bytes produced
    fsLog         \* history: paths written, in order

vars == <<pc, heap, applemojis, data, dirs, fs, barLog, console, totalBefore,
          totalAfter, i, processed, batch, promises, orig, calls, sharpOut, fsLog>>

Deref(arr) == [k \in 1..Len(arr) |-> heap[arr[k]]]

WriteFile(files, path, content) ==
    [f \in DOMAIN files \cup {path} |-> IF f = path THEN content ELSE files[f]]

Init ==
    \E n \in Lengths :
    \E imgs \in {s \in SUBSET Candidates(n) : Cardinality(s) <= MaxImages} :
    \E kind \in [imgs -> ImageKinds] :
        /\ orig = [p \in 1..n |-> Record(p, IF p \in imgs THEN kind[p] ELSE PlainKind(p))]
        /\ heap = orig
        /\ applemojis = [p \in 1..n |-> p]
        /\ data = << >>
        /\ pc = "load"
        /\ dirs = {}
        /\ fs = << >>
        /\ barLog = << >>
        /\ console = << >>
        /\ totalBefore = 0
        /\ totalAfter = 0
        /\ i = 0
        /\ processed = 0
        /\ batch = << >>
        /\ promises = << >>
        /\ calls = << >>
        /\ sharpOut = << >>
        /\ fsLog = << >>

(* --------------------------- module top level ------------------------ *)

\* mutant: `const data = applemojis`, the working copy aliases the source
DeepCopyAlias(arr, h) == [refs |-> arr, heap |-> h]

\* JSON.parse(JSON.stringify(applemojis)): fresh objects with the same content
DeepCopy(arr, h) ==
    LET n == Len(arr)
        base == Cardinality(DOMAIN h)
        copy == JSONparse(JSONstringify([k \in 1..n |-> h[arr[k]]]))
    IN [refs |-> [k \in 1..n |-> base + k],
        heap |-> [r \in DOMAIN h \cup {base + k : k \in 1..n} |->
                     IF r \in DOMAIN h THEN h[r] ELSE copy[r - base]]]

LoadData ==
    /\ pc = "load"
    /\ LET c == DeepCopy(applemojis, heap)
       IN /\ data' = c.refs
          /\ heap' = c.heap
    /\ pc' = "backup"
    /\ UNCHANGED <<applemojis, dirs, fs, barLog, console, totalBefore, totalAfter,
                   i, processed, batch, promises, orig, calls, sharpOut, fsLog>>

BackupOriginal ==
    /\ pc = "backup"
    /\ dirs' = dirs \cup {backupDir}
    /\ fs' = WriteFile(fs, backupPath, ExportModule(JSONstringify(Deref(applemojis))))
    /\ fsLog' = Append(fsLog, backupPath)
    /\ pc' = "prepare"
    /\ UNCHANGED <<heap, applemojis, data, barLog, console, totalBefore, totalAfter,
                   i, processed, batch, promises, orig, calls, sharpOut>>

\* mkdir ./output, the counters, and run() up to its loop
StartRun ==
    /\ pc = "prepare"
    /\ dirs' = dirs \cup {outputDir}
    /\ totalBefore' = 0
    /\ totalAfter' = 0
    /\ barLog' = Append(barLog, [op |-> "start", total |-> Len(data), value |-> 0,
                                 saved |-> Lit("0B")])
    /\ i' = 0
    /\ processed' = 0
    /\ pc' = "loop"
    /\ UNCHANGED <<heap, applemojis, data, fs, console, batch, promises, orig,
                   calls, sharpOut, fsLog>>

(* ----------------------------- convertEmoji -------------------------- *)

\* mutant: the guard without its prefix check
IsEmbeddedImagePresenceOnly(rec) == "emoji" \in DOMAIN rec

\* the guard of convertEmoji, negated
IsEmbeddedImage(rec) ==
    /\ "emoji" \in DOMAIN rec
    /\ rec.emoji # << >>
    /\ StartsWith(rec.emoji, imagePrefix)

\* convertEmoji up to its await: the promise it returns and the new totalBefore
ConvertStart(ref, h, tb) ==
    LET rec == h[ref] IN
    IF ~IsEmbeddedImage(rec)
    THEN [promise |-> [state |-> "fulfilled", value |-> ref], totalBefore |-> tb]
    ELSE LET parts == Split(rec.emoji, Lit(",")) IN
         IF Len(parts) < 2
         THEN \* Buffer.from(undefined) throws
              [promise |-> [state |-> "rejected"], totalBefore |-> tb]
         ELSE LET buffer == BufferFrom(parts[2]) IN
              [promise |-> [state |-> "pending", obj |-> ref, buffer |-> buffer],
               totalBefore |-> tb + buffer.len]

\* mutant: every call of a batch adds to the totalBefore read before the batch
RECURSIVE MapLost(_, _, _, _, _, _)
MapLost(b, lo, hi, h, tb0, tb) ==
    IF lo > hi THEN [promises |-> << >>, totalBefore |-> tb]
    ELSE IF lo = hi
    THEN LET r == ConvertStart(b[lo], h, tb0)
         IN [promises |-> <<r.promise>>,
             totalBefore |-> IF r.totalBefore = tb0 THEN tb ELSE r.totalBefore]
    ELSE LET mid == (lo + hi) \div 2
             left == MapLost(b, lo, mid, h, tb0, tb)
             right == MapLost(b, mid + 1, hi, h, tb0, left.totalBefore)
         IN [promises |-> left.promises \o right.promises,
             totalBefore |-> right.totalBefore]
MapConvertLostUpdate(b, lo, hi, h, tb) == MapLost(b, lo, hi, h, tb, tb)

\* mutant: emojiObj is one variable shared by the calls of a batch, so every
\* continuation assigns to the record of the last call
RECURSIVE MapShared(_, _, _, _, _)
MapShared(b, lo, hi, h, tb) ==
    IF lo > hi THEN [promises |-> << >>, totalBefore |-> tb]
    ELSE IF lo = hi
    THEN LET r == ConvertStart(b[lo], h, tb)
         IN [promises |-> <<r.promise>>, totalBefore |-> r.totalBefore]
    ELSE LET mid == (lo + hi) \div 2
             left == MapShared(b, lo, mid, h, tb)
             right == MapShared(b, mid + 1, hi, h, left.totalBefore)
         IN [promises |-> left.promises \o right.promises,
             totalBefore |-> right.totalBefore]
MapConvertSharedObj(b, lo, hi, h, tb) ==
    LET m == MapShared(b, lo, hi, h, tb)
    IN [promises |-> [j \in DOMAIN m.promises |->
                        IF m.promises[j].state = "pending"
                        THEN [m.promises[j] EXCEPT !.obj = b[Len(b)]]
                        ELSE m.promises[j]],
        totalBefore |-> m.totalBefore]

\* batch.map(convertEmoji) over b[lo..hi]: the calls run in order, each to its
\* await, each reading the totalBefore the call before it left (the range is
\* halved, the left half first, to keep the evaluation shallow)
RECURSIVE MapConvert(_, _, _, _, _)
MapConvert(b, lo, hi, h, tb) ==
    IF lo > hi THEN [promises |-> << >>, totalBefore |-> tb]
    ELSE IF lo = hi
    THEN LET r == ConvertStart(b[lo], h, tb)
         IN [promises |-> <<r.promise>>, totalBefore |-> r.totalBefore]
    ELSE LET mid == (lo + hi) \div 2
             left == MapConvert(b, lo, mid, h, tb)
             right == MapConvert(b, mid + 1, hi, h, left.totalBefore)
         IN [promises |-> left.promises \o right.promises,
             totalBefore |-> right.totalBefore]

AnyRejected(proms) == \E k \in DOMAIN proms : proms[k].state = "rejected"
AllFulfilled(proms) == \A k \in DOMAIN proms : proms[k].state = "fulfilled"

(* --------------------------------- run ------------------------------- *)

\* mutant: the slice takes one record too many
BatchSliceOneMore(arr, start) == Slice(arr, start, start + batchSize + 1)

BatchSlice(arr, start) == Slice(arr, start, start + batchSize)

\* one turn of the loop up to `await convertBatch(batch)`; a call that throws
\* rejects Promise.all, and with it run()
DispatchBatch ==
    /\ pc = "loop"
    /\ i < Len(data)
    /\ LET b == BatchSlice(data, i)
           m == MapConvert(b, 1, Len(b), heap, totalBefore)
       IN /\ batch' = b
          /\ promises' = m.promises
          /\ totalBefore' = m.totalBefore
          /\ calls' = calls \o [k \in 1..Len(b) |-> i + k]
          /\ pc' = IF AnyRejected(m.promises) THEN "aborted" ELSE "await"
    /\ UNCHANGED <<heap, applemojis, data, dirs, fs, barLog, console, totalAfter,
                   i, processed, orig, sharpOut, fsLog>>

\* mutant: the record is replaced by one that holds the emoji field alone
SetEmojiOnly(h, ref, value) == [h EXCEPT ![ref] = [emoji |-> value]]

\* emojiObj.emoji = value
SetEmoji(h, ref, value) == [h EXCEPT ![ref] =
    [f \in DOMAIN h[ref] \cup {"emoji"} |-> IF f = "emoji" THEN value ELSE h[ref][f]]]

\* the transcoder resolves: convertEmoji resumes after its await.  After run()
\* has rejected the process may still be alive (unhandled rejections only
\* warned about), and the operations left in flight may still settle.
TranscodeResolve(k) ==
    /\ pc \in {"await", "aborted"}
    /\ k \in DOMAIN promises
    /\ promises[k].state = "pending"
    /\ promises[k].buffer.valid
    /\ \E afterSize \in AfterSizes :
         LET webpBuffer == [id |-> promises[k].buffer.id, fmt |-> "webp",
                            len |-> afterSize, valid |-> TRUE]
         IN /\ totalAfter' = totalAfter + webpBuffer.len
            /\ heap' = SetEmoji(heap, promises[k].obj, webpTag \o ToBase64(webpBuffer))
            /\ sharpOut' = WriteFile(sharpOut, promises[k].buffer.id, webpBuffer)
    /\ promises' = [promises EXCEPT ![k] = [state |-> "fulfilled", value |-> promises[k].obj]]
    /\ UNCHANGED <<pc, applemojis, data, dirs, fs, barLog, console, totalBefore,
                   i, processed, batch, orig, calls, fsLog>>

\* mutant: a rejection is isolated to its record and run() goes on
TranscodeRejectIsolated(k) ==
    /\ pc \in {"await", "aborted"}
    /\ k \in DOMAIN promises
    /\ promises[k].state = "pending"
    /\ ~promises[k].buffer.valid
    /\ promises' = [promises EXCEPT ![k] = [state |-> "fulfilled", value |-> promises[k].obj]]
    /\ UNCHANGED <<pc, heap, applemojis, data, dirs, fs, barLog, console, totalBefore,
                   totalAfter, i, processed, batch, orig, calls, sharpOut, fsLog>>

\* the transcoder rejects: Promise.all rejects, run() rejects
TranscodeReject(k) ==
    /\ pc \in {"await", "aborted"}
    /\ k \in DOMAIN promises
    /\ promises[k].state = "pending"
    /\ ~promises[k].buffer.valid
    /\ promises' = [promises EXCEPT ![k] = [state |-> "rejected"]]
    /\ pc' = "aborted"
    /\ UNCHANGED <<heap, applemojis, data, dirs, fs, barLog, console, totalBefore,
                   totalAfter, i, processed, batch, orig, calls, sharpOut, fsLog>>

\* mutant: data[idx] = result, the offset of the batch forgotten
WriteBackNoOffset(arr, start, results) ==
    [p \in DOMAIN arr |-> IF p \in DOMAIN results THEN results[p].value ELSE arr[p]]

\* results.forEach((result, idx) => data[i + idx] = result)
WriteBack(arr, start, results) ==
    [p \in DOMAIN arr |->
        IF p - start \in DOMAIN results THEN results[p - start].value ELSE arr[p]]

\* mutant: processed = batch.length
NextProcessedAssign(n, b) == Len(b)

NextProcessed(n, b) == n + Len(b)

\* Promise.all resolved: the rest of the loop body, and i += batchSize
ResumeBatch ==
    /\ pc = "await"
    /\ AllFulfilled(promises)
    /\ data' = WriteBack(data, i, promises)
    /\ processed' = NextProcessed(processed, batch)
    /\ barLog' = Append(barLog, [op |-> "update",
                                 value |-> Min(processed', Len(data')),
                                 saved |-> PrettyBytes(totalBefore - totalAfter)])
    /\ i' = i + batchSize
    /\ batch' = << >>
    /\ promises' = << >>
    /\ pc' = "loop"
    /\ UNCHANGED <<heap, applemojis, dirs, fs, console, totalBefore, totalAfter,
                   orig, calls, sharpOut, fsLog>>

Percentage(before, after) ==
    IF before = 0 THEN [nan |-> TRUE] ELSE [saved |-> before - after, of |-> before]

\* the loop ends: bar.stop(), the output file, the summary
Finish ==
    /\ pc = "loop"
    /\ ~(i < Len(data))
    /\ outputDir \in dirs
    /\ barLog' = Append(barLog, [op |-> "stop"])
    /\ fs' = WriteFile(fs, outputPath, ExportModule(JSONstringify(Deref(data))))
    /\ fsLog' = Append(fsLog, outputPath)
    /\ console' = console \o
         << [line |-> "complete"],
            [line |-> "original", size |-> PrettyBytes(totalBefore)],
            [line |-> "optimized", size |-> PrettyBytes(totalAfter)],
            [line |-> "saved", size |-> PrettyBytes(totalBefore - totalAfter),
             percent |-> Percentage(totalBefore, totalAfter)],
            [line |-> "output", path |-> outputJsonPath] >>
    /\ pc' = "done"
    /\ UNCHANGED <<heap, applemojis, data, dirs, totalBefore, totalAfter, i,
                   processed, batch, promises, orig, calls, sharpOut>>

Next ==
    \/ LoadData
    \/ BackupOriginal
    \/ StartRun
    \/ DispatchBatch
    \/ \E k \in 1..batchSize : TranscodeResolve(k)
    \/ \E k \in 1..batchSize : TranscodeReject(k)
    \/ ResumeBatch
    \/ Finish

Spec == Init /\ [][Next]_vars

(* ---------------------- vocabulary of the properties ----------------- *)

N == Len(orig)

\* an embedded-image value: a string that begins with "data:image"
HasImagePrefix(rec) ==
    /\ "emoji" \in DOMAIN rec
    /\ Len(rec.emoji) >= 1
    /\ rec.emoji[1] = [lit |-> "data:image"]

\* the text after the first comma is a base64 payload
HasPayload(rec) ==
    /\ HasImagePrefix(rec)
    /\ Len(rec.emoji) >= 4
    /\ "b64" \in DOMAIN rec.emoji[4]

PayloadLen(rec) == IF HasPayload(rec) THEN rec.emoji[4].b64.len ELSE 0
PayloadId(rec) == IF HasPayload(rec) THEN rec.emoji[4].b64.id ELSE 0
Decodable(rec) == HasPayload(rec) /\ rec.emoji[4].b64.valid
TranscodedLen(rec) ==
    IF PayloadId(rec) \in DOMAIN sharpOut THEN sharpOut[PayloadId(rec)].len ELSE 0

Called == {calls[k] : k \in DOMAIN calls}
Pending == {i + k : k \in {j \in DOMAIN promises : promises[j].state = "pending"}}
BatchOf(p) == (p - 1) \div 50
Updates == SelectSeq(barLog, LAMBDA e : e.op = "update")
Converted(p) == heap[data[p]] # orig[p]

\* the record of position p with its image transcoded
WebpRecord(p) ==
    [f \in DOMAIN orig[p] |->
        IF f = "emoji"
        THEN <<[lit |-> "data:image"], [lit |-> "/webp;base64"], [lit |-> ","],
               [b64 |-> sharpOut[PayloadId(orig[p])]]>>
        ELSE orig[p][f]]

RECURSIVE SumBefore(_)
SumBefore(S) ==
    IF S = {} THEN 0
    ELSE LET p == CHOOSE x \in S : TRUE IN PayloadLen(orig[p]) + SumBefore(S \ {p})

RECURSIVE SumAfter(_)
SumAfter(S) ==
    IF S = {} THEN 0
    ELSE LET p == CHOOSE x \in S : TRUE IN TranscodedLen(orig[p]) + SumAfter(S \ {p})

RECURSIVE SumCalls(_)
SumCalls(K) ==
    IF K = {} THEN 0
    ELSE LET k == CHOOSE x \in K : TRUE IN PayloadLen(orig[calls[k]]) + SumCalls(K \ {k})

\* the records that hold an embedded image with a payload
ImagePositions == {p \in 1..N : HasPayload(orig[p])}

\* original sizes of the embedded images convertEmoji was called on, a record
\* called twice counted twice
BeforeOfCalls ==
    LET images == ImagePositions
    IN SumCalls({k \in DOMAIN calls : calls[k] \in images})

\* sizes of what the transcoder has produced for the images S
AfterOf(S) == SumAfter(S)

\* original minus transcoded size over the images S
SavedOf(S) == SumBefore(S) - SumAfter(S)

OutputDataset == JSONparse(fs[outputPath][2])

(* ------------------------------ properties --------------------------- *)

C2_IndexPreserving ==
    /\ pc # "load" => Len(data) = N
    /\ pc = "done" =>
          /\ Len(OutputDataset) = N
          /\ \A p \in 1..N :
                /\ data[p] = N + p
                /\ OutputDataset[p] = heap[N + p]
                /\ OutputDataset[p].name = orig[p].name

C2_Witness ==
    /\ pc = "done"
    /\ N = 120
    /\ \E p \in 1..50, q \in 101..120 : Converted(p) /\ Converted(q)

\* C3: on completion every record that held an embedded image keeps its
\* other fields, and its emoji field is "data:image/webp;base64," followed by
\* the base64 of what the transcoder produced for its decoded payload.
C3_ConvertedRecord ==
    pc = "done" =>
        \A p \in 1..N :
            HasImagePrefix(orig[p]) =>
                /\ PayloadId(orig[p]) \in DOMAIN sharpOut
                /\ sharpOut[PayloadId(orig[p])].id = PayloadId(orig[p])
                /\ sharpOut[PayloadId(orig[p])].fmt = "webp"
                /\ OutputDataset[p] = WebpRecord(p)

C3_Witness ==
    /\ pc = "done"
    /\ \E p, q \in 1..N : p # q /\ BatchOf(p) = BatchOf(q)
                          /\ HasImagePrefix(orig[p]) /\ HasImagePrefix(orig[q])

\* C4: the saved value of the k-th progress update is the original minus the
\* transcoded size summed over the embedded images of the first k batches,
\* and the summary reports the same sums over the whole dataset.
C4_SavedBytes ==
    LET images == ImagePositions IN
    /\ \A k \in 1..Len(Updates) :
          Updates[k].saved =
             [num |-> SavedOf({p \in images : p <= Min(50 * k, N)}), unit |-> "B"]
    /\ pc = "done" =>
          /\ console[2].size = [num |-> SumBefore(images), unit |-> "B"]
          /\ console[3].size = [num |-> AfterOf(images), unit |-> "B"]
          /\ console[4].size = [num |-> SavedOf(images), unit |-> "B"]

C4_Witness ==
    /\ pc = "done"
    /\ Len(Updates) >= 2
    /\ \E p, q \in 1..50 : p # q /\ Converted(p) /\ Converted(q)
                           /\ TranscodedLen(orig[p]) # TranscodedLen(orig[q])

\* C5: the k-th progress update carries min(50 k, n), and a run that
\* completes has issued ceil(n / 50) updates.
C5_ProgressCounts ==
    /\ \A k \in 1..Len(Updates) : Updates[k].value = Min(50 * k, N)
    /\ pc = "done" =>
          /\ Len(Updates) = (N + 49) \div 50
          /\ N > 0 => Updates[Len(Updates)].value = N

C5_Witness ==
    /\ pc = "done"
    /\ N = 120
    /\ Len(Updates) = 3
    /\ Updates[1].value = 50 /\ Updates[2].value = 100 /\ Updates[3].value = 120

\* a transcode of position p has thrown or rejected
Failed(p) ==
    /\ HasImagePrefix(orig[p])
    /\ ~Decodable(orig[p])
    /\ p \in Called
    /\ p \notin Pending

\* C6: once a transcode has thrown or rejected the run is aborted: nothing of
\* a later batch is called, the failing batch gets no progress update, the
\* output file does not exist, and the backup does.
C6_FailureAborts ==
    (\E p \in 1..N : Failed(p)) =>
        /\ pc = "aborted"
        /\ \A k \in DOMAIN calls : calls[k] <= i + 50
        /\ Len(Updates) = i \div 50
        /\ fsLog = <<backupPath>>
        /\ outputPath \notin DOMAIN fs
        /\ backupPath \in DOMAIN fs
        /\ console = << >>

C6_Witness ==
    /\ pc = "aborted"
    /\ i = 50
    /\ N = 120
    /\ \E p \in 51..100 : Failed(p)
    /\ \E q \in 1..50 : Converted(q)

\* C7: the backup exists, or else convertEmoji has not been called and every
\* object still equals the input; the backup is the input dataset; the source
\* collection never changes.
C7_BackupAndSourceIntact ==
    /\ \/ backupPath \in DOMAIN fs
       \/ /\ calls = << >>
          /\ \A r \in DOMAIN heap : heap[r] = orig[IF r > N THEN r - N ELSE r]
    /\ backupPath \in DOMAIN fs =>
          fs[backupPath] = <<[lit |-> "export const applemojis = "], [json |-> orig],
                             [lit |-> ";"]>>
    /\ applemojis = [p \in 1..N |-> p]
    /\ \A p \in 1..N : heap[p] = orig[p]

C7_Witness ==
    /\ pc = "done"
    /\ \E p \in 1..N : Converted(p)
    /\ backupPath \in DOMAIN fs

\* C8: the operations in flight belong to one batch of at most 50, and while
\* one is in flight nothing of a later batch has been called.
C8_OneBatchInFlight ==
    /\ Cardinality(Pending) <= 50
    /\ \A p \in Pending :
          /\ \A q \in Pending : BatchOf(q) = BatchOf(p)
          /\ \A k \in DOMAIN calls : BatchOf(calls[k]) <= BatchOf(p)

C8_Witness ==
    /\ i = 50
    /\ Pending = {51, 100}

C8_WitnessFailedBatch ==
    /\ pc = "aborted"
    /\ Pending # {}

C10_PrintedPathIsWrittenPath ==
    pc = "done" =>
        /\ Cardinality({k \in DOMAIN fsLog : fsLog[k] # backupPath}) = 1
        /\ fsLog[Len(fsLog)] = console[5].path
        /\ console[5].path \in DOMAIN fs
        /\ JSONparse(fs[console[5].path][2]) = Deref(data)

====
